---- MODULE Spec2Model ----
(***************************************************************************)
(* Order intake pipeline of moretranz: the EmailScheduler control surface  *)
(* (start / stop / update interval), the APScheduler timer job with its    *)
(* max_instances limit, the EmailProcessor.monitor_emails polling loop     *)
(* with its idempotency gate, and the websocket ConnectionManager.         *)
(*                                                                         *)
(* Library behaviour the sources rely on (APScheduler 3.x, asyncio):       *)
(*  - the executor counts running instances per job id and refuses to      *)
(*    submit a job whose count has reached max_instances; the count lives  *)
(*    in the executor object and survives remove_job/add_job and           *)
(*    shutdown/start;                                                      *)
(*  - AsyncIOScheduler.shutdown(wait=True) cannot wait for a coroutine     *)
(*    job: depending on the release it cancels the job's task or leaves    *)
(*    it running (both outcomes are modelled);                             *)
(*  - a cancelled task receives CancelledError at the await it is          *)
(*    suspended in; "except Exception" does not catch it, a bare           *)
(*    "except:" does;                                                      *)
(*  - code between two awaits of a coroutine runs without interleaving     *)
(*    of other coroutines of the same event loop.                          *)
(***************************************************************************)
EXTENDS Integers, Sequences, FiniteSets, TLC

\* ---------------------------------------------------------------- bounds
MaxMsgs == 2            \* messages that arrive in the mailbox
MaxProcs == 1           \* EmailProcessor instances ever created (starts)
NumTasks == 2           \* task slots of the asyncio executor
MaxLoginFailures == 1   \* IMAP logins of a starting cycle that fail
MaxConns == 3           \* websockets that ever connect
MaxBroadcasts == 2      \* calls of ConnectionManager.broadcast
NumBroadcasters == 2    \* coroutines that may be inside broadcast
MaxLines == 2           \* labelled lines of an email body
MaxCalls == 2           \* calls of a library function on one input
MaxClock == 2           \* readings of the system clock that differ
MaxDownloads == 3       \* download links of one email
MaxPrints == 2          \* calls of print_file
MaxParts == 2           \* MIME attachments of one email
MaxLinks == 1           \* download links of one email, in the document stages
MaxWrites == 2          \* child rows the pipeline writes for one Order
MaxDeleteCalls == 2     \* requests to delete_order

Tasks == 1..NumTasks
Broadcasters == 1..NumBroadcasters
None == 0           \* Python None for ids and PO numbers

\* ------------------------------------------------------ addresses, config
NoneStr == <<"<None>">>                  \* Python None where a str is expected
AddrAllowed == <<"a", "b">>              \* first configured address
AddrSecond == <<"b", "a">>               \* second configured address
FromAllowed == <<"x", "a", "b", "y">>    \* "x <ab> y": contains AddrAllowed
AllowedSenderConfigs == { <<>>, <<AddrAllowed, AddrSecond>> }
Intervals == {5, 7}
PONumbers == {None, 1, 2}

\* The messages that arrive: sender header, PO number that parse_order_details
\* finds in the body, and whether the IMAP fetch of the message succeeds.  The
\* PO number of a message that is never parsed, and everything about a message
\* that cannot be fetched, is not observable, so one value stands for all.
MessageKinds ==
    [sender : {FromAllowed}, po : PONumbers, fetch_ok : {TRUE}]
    \cup [sender : {AddrSecond, NoneStr}, po : {1}, fetch_ok : {TRUE}]
    \cup [sender : {FromAllowed}, po : {1}, fetch_ok : {FALSE}]

VARIABLES
    is_running,        \* EmailScheduler.is_running
    email_processor,   \* EmailScheduler.email_processor: instance id or None
    proc_is_running,   \* EmailProcessor.is_running, per instance created
    mail,              \* EmailProcessor.mail is an open session, per instance
    job,               \* 'email_monitor' job of the job store: interval or None
    instances,         \* executor._instances['email_monitor']
    last_log,          \* last line the scheduler wrote to its logger
    allowed_senders,   \* EmailConfig.allowed_senders, split on ','
    sleep_time,        \* EmailConfig.sleep_time
    cyc,               \* per task slot: the _monitor_emails_job coroutine
    msgs,              \* every message that arrived, by IMAP id
    unseen,            \* ids still flagged UNSEEN
    orders,            \* rows of table orders, in insertion order
    folders,           \* order folders created on disk (by PO number)
    print_jobs,        \* rows of table print_jobs
    attachments,       \* rows of table attachments
    logs,              \* rows of table processing_logs
    events,            \* messages handed to manager.broadcast
    active_connections,\* ConnectionManager.active_connections
    failing,           \* websockets whose send_text raises
    closed,            \* websockets whose websocket_endpoint saw WebSocketDisconnect
    bc,                \* per caller: the broadcast coroutine
    delivered,         \* per websocket ever accepted: texts received
    sent,              \* number of broadcast calls made so far
    body,              \* parse_order_details: the body text, as labelled lines
    clock,             \* datetime.utcnow()
    parsed,            \* parse_order_details: outcome of each call on body
    files,             \* order folder: the files in it and who wrote them
    downloads,         \* process_download_urls: the links handled so far
    printed,           \* PrinterService.print_file: outcome of each call
    doc,               \* the document stages of one Order (monitor_emails 644-655)
    deletion           \* one Order's rows, the pipeline writing them, delete_order

pipeVars == <<is_running, email_processor, proc_is_running, mail, job,
              instances,
              last_log, allowed_senders, sleep_time, cyc,
              msgs, unseen, orders, folders, print_jobs,
              attachments, logs, events>>
dbVars == <<orders, folders, print_jobs, attachments, logs>>
ctlVars == <<is_running, email_processor, job, allowed_senders, sleep_time>>
wsVars == <<active_connections, failing, closed, bc, delivered, sent>>
parseVars == <<body, clock, parsed>>
downloadVars == <<files, downloads>>
printVars == <<printed>>
docVars == <<doc>>
deleteVars == <<deletion>>
libVars == <<parseVars, downloadVars, printVars, docVars, deleteVars>>
vars == <<pipeVars, wsVars, libVars>>

\* ------------------------------------------------------------- helpers
RECURSIVE SortedSeq(_)
SortedSeq(S) ==
    IF S = {} THEN <<>>
    ELSE LET m == CHOOSE x \in S : \A y \in S : x <= y
         IN <<m>> \o SortedSeq(S \ {m})

IsSubstring(s, t) ==
    \E i \in 0..(Len(t) - Len(s)) :
        \A k \in 1..Len(s) : t[i + k] = s[k]

\* A task slot: where the coroutine is suspended (pc), and the locals of
\* monitor_emails that are read again later: the processor it runs on,
\* ALLOWED_SENDER, email_message (msg) and the order being handled (ord).
IdleTask == [pc |-> "idle", proc |-> None, allowed |-> NoneStr,
             msg |-> None, ord |-> None, cancel |-> FALSE]

\* A broadcast coroutine: where it is suspended (pc) and its locals: message,
\* position of the for loop at 43 (i), disconnected, position of the loop at
\* 51 (j), and of disconnect: position of the loop at 22 (k),
\* stale_connections.  at_start records the subscribers at the call.
IdleBroadcast == [pc |-> "idle", message |-> None, i |-> 1, disconnected |-> <<>>,
                  j |-> 1, k |-> 1, stale_connections |-> <<>>, at_start |-> {}]

\* ------------------------------------------------------------ initial state
InitService ==
    /\ is_running = FALSE
    /\ email_processor = None
    /\ proc_is_running = <<>>
    /\ mail = <<>>
    /\ job = None
    /\ instances = 0
    /\ last_log = "none"
    /\ allowed_senders \in AllowedSenderConfigs
    /\ sleep_time = 5
    /\ cyc = [t \in Tasks |-> IdleTask]
    /\ msgs = <<>>
    /\ unseen = {}
    /\ orders = <<>>
    /\ folders = {}
    /\ print_jobs = <<>>
    /\ attachments = <<>>
    /\ logs = <<>>
    /\ events = <<>>
    /\ active_connections = <<>>
    /\ failing = {}
    /\ closed = {}
    /\ bc = [b \in Broadcasters |-> IdleBroadcast]
    /\ delivered = <<>>
    /\ sent = 0

InitParse ==
    /\ body = <<>>
    /\ clock = 0
    /\ parsed = <<>>

InitDownload ==
    /\ files = {}
    /\ downloads = <<>>

InitPrint ==
    printed = <<>>

\* The document stages of one Order: the MIME parts and links of its email,
\* the loop positions in them (i, j), the mode of the printer service, the
\* Attachment and ProcessingLog rows written, the calls of print_file made,
\* the outcome of the email-body rendering, the exception that reached the
\* handler at 661 and the Order's status.
NewDoc(parts, links, is_docker) ==
    [stage |-> "open", parts |-> parts, links |-> links, i |-> 1, j |-> 1,
     is_docker |-> is_docker, rows |-> <<>>, logs |-> <<>>,
     dispatched |-> <<>>, render |-> "none", raised |-> "",
     status |-> "processing"]

\* no Order is in its document stages
NoDoc == [NewDoc(<<>>, <<>>, TRUE) EXCEPT !.stage = "none"]

InitDoc ==
    doc = NoDoc

\* The rows of one Order and its children in the database, the pipeline that
\* writes them (p, and the number of child writes made) and a request to
\* delete_order (d, and the number of requests made).  A child row has its
\* table and order_id; doomed marks a row that the open transaction of
\* delete_order has deleted.
NoDeletion ==
    [order |-> "none", children |-> <<>>, p |-> "idle", writes |-> 0,
     d |-> "idle", calls |-> 0]

InitDelete ==
    deletion = NoDeletion

Init ==
    InitService /\ InitParse /\ InitDownload /\ InitPrint /\ InitDoc /\ InitDelete

\* The event loop is free: no coroutine is between two awaits.
LoopFree == \A t \in Tasks : cyc[t].pc # "poll"

InFlight(t) == cyc[t].pc # "idle"

StatusEvent(status, processing) ==
    [type |-> "status_update", status |-> status, is_processing |-> processing]

OrderEvent(o) ==
    [type |-> "new_order", po_number |-> o.po_number, status |-> o.status]

LogRow(action, status) == [action |-> action, status |-> status]

\* ------------------------------------------------------- control surface
\* scheduler.py 39-41 / orders.py 168-169
AlreadyRunning == is_running

\* Variant: stop_processing without its "not running" guard.
NotRunning_unguarded == FALSE

\* scheduler.py 68-70 / orders.py 220-221
NotRunning == ~is_running

\* orders.py 162-215 with scheduler.py 37-64
StartProcessing ==
    /\ LoopFree
    /\ IF AlreadyRunning
       THEN /\ last_log' = "already_running"
            /\ UNCHANGED <<is_running, email_processor, proc_is_running, mail,
                           job, events>>
       ELSE /\ Len(proc_is_running) < MaxProcs
            /\ email_processor' = Len(proc_is_running) + 1
            /\ proc_is_running' = Append(proc_is_running, FALSE)
            /\ mail' = Append(mail, FALSE)
            /\ job' = sleep_time
            /\ is_running' = TRUE
            /\ events' = Append(events, StatusEvent("running", TRUE))
            /\ last_log' = "started"
    /\ UNCHANGED <<instances, allowed_senders, sleep_time, cyc, msgs, unseen,
                   dbVars, wsVars, libVars>>

\* scheduler.shutdown(wait=True) on the asyncio executor: the running job is
\* cancelled (cancels = TRUE) or left alone (cancels = FALSE); it is not awaited.
Shutdown(cancels) ==
    [t \in Tasks |->
        IF InFlight(t) /\ cancels THEN [cyc[t] EXCEPT !.cancel = TRUE]
        ELSE cyc[t]]

\* orders.py 217-224 with scheduler.py 66-80
StopProcessing ==
    /\ LoopFree
    /\ IF NotRunning
       THEN /\ last_log' = "not_running"
            /\ UNCHANGED <<is_running, job, cyc, events>>
       ELSE /\ \E cancels \in BOOLEAN : cyc' = Shutdown(cancels)
            /\ job' = None
            /\ is_running' = FALSE
            /\ events' = Append(events, StatusEvent("stopped", FALSE))
            /\ last_log' = "stopped"
    /\ UNCHANGED <<email_processor, proc_is_running, mail, instances,
                   allowed_senders, sleep_time, msgs, unseen, dbVars, wsVars, libVars>>

\* Variant: update_interval without the test of is_running at 117
update_interval_unguarded(n) == n

\* scheduler.py 115-128
update_interval(n) ==
    IF is_running THEN n ELSE job

\* scheduler.py 115-128: update_interval(n) called on the scheduler, from any
\* thread and so at any point of the loop
UpdateIntervalCall(n) ==
    /\ job' = update_interval(n)
    /\ last_log' = IF is_running THEN "interval_updated" ELSE last_log
    /\ UNCHANGED <<is_running, email_processor, proc_is_running, mail, instances,
                   allowed_senders, sleep_time, cyc, msgs, unseen, dbVars,
                   events, wsVars, libVars>>

UpdateInterval == \E n \in Intervals : UpdateIntervalCall(n)

\* config.py 68-106: runs in a worker thread, so at any point of the loop
UpdateEmailConfig ==
    \E n \in Intervals, a \in AllowedSenderConfigs :
        /\ <<n, a>> # <<sleep_time, allowed_senders>>
        /\ sleep_time' = n
        /\ allowed_senders' = a
        /\ job' = IF is_running /\ sleep_time # n THEN update_interval(n) ELSE job
        /\ last_log' = IF job' # job THEN "interval_updated" ELSE last_log
        /\ UNCHANGED <<is_running, email_processor, proc_is_running, mail, instances,
                       cyc, msgs, unseen, dbVars, events, wsVars, libVars>>

\* -------------------------------------------------------------- the timer
\* Variant: as many concurrent instances of the job as there are task slots.
max_instances_unlimited == NumTasks

\* scheduler.py 23-27
max_instances == 1

FreeTask == CHOOSE t \in Tasks : ~InFlight(t) /\ \A u \in Tasks : u < t => InFlight(u)

\* The interval trigger fires.  The executor submits _monitor_emails_job as a
\* new task unless max_instances of it are running, in which case the run is
\* skipped.
Tick ==
    /\ LoopFree
    /\ job # None
    /\ IF instances >= max_instances
       THEN /\ last_log' = "job_skipped"
            /\ UNCHANGED <<instances, cyc>>
       ELSE /\ \E t \in Tasks : ~InFlight(t)
            /\ UNCHANGED last_log
            /\ instances' = instances + 1
            /\ cyc' = [cyc EXCEPT ![FreeTask] = [IdleTask EXCEPT !.pc = "start"]]
    /\ UNCHANGED <<ctlVars, proc_is_running, mail, msgs, unseen, dbVars, events,
                   wsVars, libVars>>

\* The task is over: the executor's done-callback releases the instance.
Finish(t) == [cyc EXCEPT ![t] = IdleTask]


\* ------------------------------------------------------ the polling cycle
\* email_processor.py 520
ALLOWED_SENDER ==
    IF allowed_senders # <<>> THEN Head(allowed_senders) ELSE NoneStr

LoginFailures ==
    Cardinality({i \in 1..Len(logs) : logs[i].action = "Email Processing"})

\* scheduler.py 82-88 and email_processor.py 511-533: the job starts, marks
\* the current processor running, reads the configuration and logs in.
JobStart(t) ==
    /\ LoopFree
    /\ cyc[t].pc = "start"
    /\ ~cyc[t].cancel
    /\ email_processor # None
    /\ proc_is_running' = [proc_is_running EXCEPT ![email_processor] = TRUE]
    /\ \/ /\ logs' = Append(logs, LogRow("Email Connection", "success"))
          /\ mail' = [mail EXCEPT ![email_processor] = TRUE]
          /\ cyc' = [cyc EXCEPT ![t] = [@ EXCEPT !.pc = "poll",
                                                 !.proc = email_processor,
                                                 !.allowed = ALLOWED_SENDER]]
          /\ UNCHANGED instances
       \/ /\ LoginFailures < MaxLoginFailures
          /\ logs' = Append(logs, LogRow("Email Processing", "failed"))
          /\ \E connected \in BOOLEAN :
                 \* 529 raises, or 529 connects and the login at 531 raises
                 mail' = [mail EXCEPT ![email_processor] = @ \/ connected]
          /\ cyc' = Finish(t)
          /\ instances' = instances - 1
    /\ UNCHANGED <<ctlVars, last_log, msgs, unseen, orders,
                   folders, print_jobs, attachments, events, wsVars, libVars>>

\* email_processor.py 556-567: the value of email_message after the for loop
\* over email_ids, starting from the value m it had before the loop.
RECURSIVE FetchLoop(_, _)
FetchLoop(email_ids, m) ==
    IF email_ids = <<>> THEN m
    ELSE FetchLoop(Tail(email_ids),
                   IF msgs[Head(email_ids)].fetch_ok THEN Head(email_ids) ELSE m)

\* email_processor.py 556: the loop variable after the loop
LastId(email_ids) == email_ids[Len(email_ids)]

\* Variant: any sender header that is a string passes the check.
SenderCheck_any(allowed, sender) ==
    IF allowed = NoneStr \/ sender = NoneStr THEN "type_error"
    ELSE "allowed"

\* email_processor.py 578: ALLOWED_SENDER in sender
SenderCheck(allowed, sender) ==
    IF allowed = NoneStr \/ sender = NoneStr THEN "type_error"
    ELSE IF IsSubstring(allowed, sender) THEN "allowed"
    ELSE "not_allowed"

\* Variant: the pre-insert lookup never finds a row.
existing_order_blind(po) == FALSE

\* email_processor.py 593: query(Order).filter(po_number == po).first();
\* a comparison with None is rendered as IS NULL
existing_order(po) == \E i \in 1..Len(orders) : orders[i].po_number = po

\* models/order.py 10: unique index on po_number (NULLs are not compared)
IntegrityError(po) ==
    po # None /\ \E i \in 1..Len(orders) : orders[i].po_number = po

\* Variant: the Order row is created already completed.
NewOrder_completed(m, e) ==
    [id |-> Len(orders) + 1, po_number |-> msgs[m].po, email_id |-> e,
     src |-> m, status |-> "completed"]

\* email_processor.py 606-616
NewOrder(m, e) ==
    [id |-> Len(orders) + 1, po_number |-> msgs[m].po, email_id |-> e,
     src |-> m, status |-> "processing"]

\* Variant: the duplicate branch also writes a ProcessingLog row.
SkipDuplicate_logged(t, m) ==
    /\ cyc' = [cyc EXCEPT ![t] = [@ EXCEPT !.pc = "poll", !.msg = m]]
    /\ logs' = Append(logs, LogRow("Duplicate Order", "info"))
    /\ UNCHANGED <<orders, folders, print_jobs, attachments, events>>

\* email_processor.py 595-597: "Skipping duplicate", continue
SkipDuplicate(t, m) ==
    /\ cyc' = [cyc EXCEPT ![t] = [@ EXCEPT !.pc = "poll", !.msg = m]]
    /\ UNCHANGED <<dbVars, events>>

\* email_processor.py 599-628: folder, Order row, commit, broadcast_new_order
CreateOrder(t, m, e) ==
    /\ folders' = folders \cup {msgs[m].po}
    /\ IF IntegrityError(msgs[m].po)
       THEN \* 622-625: rollback, continue
            /\ cyc' = [cyc EXCEPT ![t] = [@ EXCEPT !.pc = "poll", !.msg = m]]
            /\ UNCHANGED <<orders, events>>
       ELSE /\ orders' = Append(orders, NewOrder(m, e))
            /\ events' = Append(events, OrderEvent(NewOrder(m, e)))
            /\ cyc' = [cyc EXCEPT ![t] = [@ EXCEPT !.pc = "bcast_new", !.msg = m,
                                                   !.ord = Len(orders) + 1]]
    /\ UNCHANGED <<print_jobs, attachments, logs>>

\* email_processor.py 569-667: the message left in email_message is taken
\* through the sender check, the parser and the idempotency gate, under the id
\* of the last message of the batch (e).
Process(t, m, e) ==
    IF SenderCheck(cyc[t].allowed, msgs[m].sender) # "allowed"
    THEN \* TypeError caught at 683, or "Sender not allowed" at 667
         /\ cyc' = [cyc EXCEPT ![t] = [@ EXCEPT !.pc = "sleep", !.msg = m]]
         /\ UNCHANGED <<dbVars, events>>
    ELSE IF existing_order(msgs[m].po)
    THEN SkipDuplicate(t, m)
    ELSE CreateOrder(t, m, e)

\* The task can run a pass of the loop: it is at the top of the loop after a
\* "continue", or its asyncio.sleep (672/682/685) is over.
AtLoopTop(t) ==
    \/ cyc[t].pc = "poll"
    \/ cyc[t].pc = "sleep" /\ ~cyc[t].cancel /\ LoopFree

\* email_processor.py 552: the ids the UNSEEN search returns
EmailIds == SortedSeq(unseen)

IterateFrame ==
    UNCHANGED <<ctlVars, proc_is_running, mail, last_log, msgs, wsVars, libVars>>

\* email_processor.py 535: self.is_running is false, monitor_emails returns
IterateReturn(t) ==
    /\ AtLoopTop(t)
    /\ ~proc_is_running[cyc[t].proc]
    /\ cyc' = Finish(t)
    /\ instances' = instances - 1
    /\ UNCHANGED <<unseen, dbVars, events>>
    /\ IterateFrame

\* email_processor.py 538-550 and 674-685: select/search raises; reconnect,
\* then back to the top of the loop, or sleep
IterateError(t) ==
    /\ AtLoopTop(t)
    /\ proc_is_running[cyc[t].proc]
    /\ \E pc \in {"poll", "sleep"} : cyc' = [cyc EXCEPT ![t].pc = pc]
    /\ UNCHANGED <<instances, unseen, dbVars, events>>
    /\ IterateFrame

\* email_processor.py 552-554 and 668-672: no unread emails, sleep
IterateEmpty(t) ==
    /\ AtLoopTop(t)
    /\ proc_is_running[cyc[t].proc]
    /\ EmailIds = <<>>
    /\ cyc' = [cyc EXCEPT ![t].pc = "sleep"]
    /\ UNCHANGED <<instances, unseen, dbVars, events>>
    /\ IterateFrame

\* email_processor.py 554-672: the batch is fetched (which flags the fetched
\* messages seen) and the code after the for loop runs once, up to its next
\* await or "continue".
IterateBatch(t) ==
    LET m == FetchLoop(EmailIds, cyc[t].msg)
        e == LastId(EmailIds)
    IN
    /\ AtLoopTop(t)
    /\ proc_is_running[cyc[t].proc]
    /\ EmailIds # <<>>
    /\ unseen' = {i \in unseen : ~msgs[i].fetch_ok}
    /\ IF m = None
       THEN \* email_message is unbound: NameError, caught at 683
            /\ cyc' = [cyc EXCEPT ![t].pc = "sleep"]
            /\ UNCHANGED <<dbVars, events>>
       ELSE Process(t, m, e)
    /\ UNCHANGED instances
    /\ IterateFrame

\* email_processor.py 535-685, one pass of "while self.is_running" up to its
\* next await (or to the top of the loop after a "continue").
Iterate(t) ==
    /\ AtLoopTop(t)
    /\ IF ~proc_is_running[cyc[t].proc]
       THEN IterateReturn(t)
       ELSE IterateError(t) \/ IterateEmpty(t) \/ IterateBatch(t)

\* email_processor.py 653-659: the order is completed and announced
CompleteOrder(t) ==
    LET done == [orders[cyc[t].ord] EXCEPT !.status = "completed"] IN
    /\ orders' = [orders EXCEPT ![cyc[t].ord] = done]
    /\ attachments' = Append(attachments,
                             [order_id |-> cyc[t].ord, sheet_type |-> "Email Body"])
    /\ events' = Append(events, OrderEvent(done))
    /\ cyc' = [cyc EXCEPT ![t] = [@ EXCEPT !.pc = "bcast_upd", !.ord = None,
                                           !.cancel = FALSE]]
    /\ UNCHANGED logs

\* Variant: the handler at 661-664 without its call of log_to_db
FailOrder_silent(t) ==
    /\ cyc' = [cyc EXCEPT ![t] = [@ EXCEPT !.pc = "poll", !.ord = None,
                                           !.cancel = FALSE]]
    /\ UNCHANGED <<orders, attachments, events, logs>>

\* email_processor.py 661-664: a stage raised; log and "continue"
FailOrder(t) ==
    /\ logs' = Append(logs, LogRow("Order Processing", "failed"))
    /\ cyc' = [cyc EXCEPT ![t] = [@ EXCEPT !.pc = "poll", !.ord = None,
                                           !.cancel = FALSE]]
    /\ UNCHANGED <<orders, attachments, events>>

\* email_processor.py 628-651: back from broadcast_new_order (a cancellation
\* delivered inside manager.broadcast is swallowed by its bare except); the
\* print jobs are saved and the document stages run, up to a native print
\* dispatch that suspends, to the end, or to an exception.
ResumeNew(t) ==
    /\ LoopFree
    /\ cyc[t].pc = "bcast_new"
    /\ print_jobs' = Append(print_jobs, [order_id |-> cyc[t].ord])
    /\ \/ /\ cyc' = [cyc EXCEPT ![t] = [@ EXCEPT !.pc = "print", !.cancel = FALSE]]
          /\ UNCHANGED <<orders, attachments, events, logs>>
       \/ CompleteOrder(t)
       \/ FailOrder(t)
    /\ UNCHANGED <<ctlVars, proc_is_running, mail, instances, last_log, msgs, unseen, folders, wsVars, libVars>>

\* printer_service.py 51-68 awaited from email_processor.py 761/852/941: the
\* external print command returned.
ResumePrint(t) ==
    /\ LoopFree
    /\ cyc[t].pc = "print"
    /\ ~cyc[t].cancel
    /\ \/ CompleteOrder(t)
       \/ FailOrder(t)
    /\ UNCHANGED <<ctlVars, proc_is_running, mail, instances, last_log, msgs, unseen, folders, print_jobs, wsVars, libVars>>

\* email_processor.py 659-672: back from broadcast_order_update, on to the sleep
ResumeUpd(t) ==
    /\ LoopFree
    /\ cyc[t].pc = "bcast_upd"
    /\ cyc' = [cyc EXCEPT ![t] = [@ EXCEPT !.pc = "sleep", !.cancel = FALSE]]
    /\ UNCHANGED <<ctlVars, proc_is_running, mail, instances, last_log, msgs, unseen, dbVars, events, wsVars, libVars>>

\* CancelledError is raised at the await the task is suspended in and is not
\* caught by "except Exception" (email_processor.py 661, 683, 687;
\* scheduler.py 89): the task ends where it was.
Cancelled(t) ==
    /\ LoopFree
    /\ cyc[t].pc \in {"start", "sleep", "print"}
    /\ cyc[t].cancel
    /\ cyc' = Finish(t)
    /\ instances' = instances - 1
    /\ UNCHANGED <<ctlVars, proc_is_running, mail, last_log, msgs,
                   unseen, dbVars, events, wsVars, libVars>>

\* A message of one of the given kinds is delivered to the mailbox (a
\* delivery during a pass of the loop is seen by the next search, as one right
\* after the pass is).
ArriveFrom(kinds) ==
    /\ LoopFree
    /\ Len(msgs) < MaxMsgs
    /\ \E k \in kinds :
          /\ msgs' = Append(msgs, k)
          /\ unseen' = unseen \cup {Len(msgs) + 1}
    /\ UNCHANGED <<ctlVars, proc_is_running, mail, instances, last_log, cyc,
                   dbVars, events, wsVars, libVars>>

Arrive == ArriveFrom(MessageKinds)

\* The steps of the job's coroutine
\* ------------------------------------------------------ ConnectionManager
Range(q) == {q[x] : x \in DOMAIN q}

\* list.remove(x) guarded by "if x in list"
Remove(q, x) == SelectSeq(q, LAMBDA y : y # x)

EventText(n) == [text |-> "event", n |-> n]
PingText == [text |-> "ping", n |-> None]

\* websocket_manager.py 9-12: a new websocket is accepted and appended
Connect ==
    /\ Len(delivered) < MaxConns
    /\ active_connections' = Append(active_connections, Len(delivered) + 1)
    /\ delivered' = Append(delivered, <<>>)
    /\ UNCHANGED <<failing, closed, bc, sent, pipeVars, libVars>>

\* The peer of a connected websocket goes away: from now on send_text on it
\* raises.
Fail(w) ==
    /\ w \in Range(active_connections) \ failing
    /\ failing' = failing \cup {w}
    /\ UNCHANGED <<active_connections, closed, bc, delivered, sent, pipeVars, libVars>>

\* websocket_manager.py 41-43: broadcast is called with the next message
BroadcastCall(b) ==
    /\ bc[b].pc = "idle"
    /\ sent < MaxBroadcasts
    /\ sent' = sent + 1
    /\ bc' = [bc EXCEPT ![b] = [IdleBroadcast EXCEPT
                  !.pc = "send", !.message = sent + 1,
                  !.at_start = Range(active_connections)]]
    /\ UNCHANGED <<active_connections, failing, closed, delivered, pipeVars, libVars>>

\* Variant: the first failing send ends the for loop.
MarkDisconnected_abort(B, connection) ==
    [B EXCEPT !.disconnected = Append(@, connection),
              !.i = Len(active_connections) + 1]

\* websocket_manager.py 46-48: the send raised, the connection is marked
MarkDisconnected(B, connection) ==
    [B EXCEPT !.disconnected = Append(@, connection), !.i = @ + 1]

\* websocket_manager.py 43-48: one pass of the for loop, one send_text
BroadcastSend(b) ==
    LET B == bc[b] IN
    /\ B.pc = "send"
    /\ IF B.i > Len(active_connections)
       THEN /\ bc' = [bc EXCEPT ![b].pc = "remove"]
            /\ UNCHANGED delivered
       ELSE LET connection == active_connections[B.i] IN
            IF connection \in failing
            THEN /\ bc' = [bc EXCEPT ![b] = MarkDisconnected(B, connection)]
                 /\ UNCHANGED delivered
            ELSE /\ delivered' = [delivered EXCEPT ![connection] =
                                      Append(@, EventText(B.message))]
                 /\ bc' = [bc EXCEPT ![b].i = @ + 1]
    /\ UNCHANGED <<active_connections, failing, closed, sent, pipeVars, libVars>>

\* websocket_manager.py 51-52 and 14-21: the next marked connection is handed
\* to disconnect, which removes it; with none left, broadcast returns
BroadcastRemove(b) ==
    LET B == bc[b] IN
    /\ B.pc = "remove"
    /\ IF B.j > Len(B.disconnected)
       THEN /\ bc' = [bc EXCEPT ![b] = IdleBroadcast]
            /\ UNCHANGED active_connections
       ELSE /\ active_connections' = Remove(active_connections, B.disconnected[B.j])
            /\ bc' = [bc EXCEPT ![b] = [B EXCEPT !.pc = "ping", !.k = 1,
                                                 !.stale_connections = <<>>]]
    /\ UNCHANGED <<failing, closed, delivered, sent, pipeVars, libVars>>

RECURSIVE RemoveAll(_, _)
RemoveAll(q, xs) ==
    IF xs = <<>> THEN q ELSE RemoveAll(Remove(q, Head(xs)), Tail(xs))

\* websocket_manager.py 22-33: one pass of the ping loop of disconnect; after
\* the last one the stale connections are removed and disconnect returns
DisconnectPing(b) ==
    LET B == bc[b] IN
    /\ B.pc = "ping"
    /\ IF B.k > Len(active_connections)
       THEN /\ active_connections' = RemoveAll(active_connections, B.stale_connections)
            /\ bc' = [bc EXCEPT ![b] = [B EXCEPT !.pc = "remove", !.j = @ + 1]]
            /\ UNCHANGED delivered
       ELSE LET conn == active_connections[B.k] IN
            /\ IF conn \in failing
               THEN /\ bc' = [bc EXCEPT ![b] = [B EXCEPT
                                 !.stale_connections = Append(@, conn), !.k = @ + 1]]
                    /\ UNCHANGED delivered
               ELSE /\ delivered' = [delivered EXCEPT ![conn] = Append(@, PingText)]
                    /\ bc' = [bc EXCEPT ![b].k = @ + 1]
            /\ UNCHANGED active_connections
    /\ UNCHANGED <<failing, closed, sent, pipeVars, libVars>>

Cycle ==
    \/ \E t \in Tasks : JobStart(t)
    \/ \E t \in Tasks : Iterate(t)
    \/ \E t \in Tasks : ResumeNew(t)
    \/ \E t \in Tasks : ResumePrint(t)
    \/ \E t \in Tasks : ResumeUpd(t)
    \/ \E t \in Tasks : Cancelled(t)

Next ==
    \/ StartProcessing
    \/ StopProcessing
    \/ UpdateEmailConfig
    \/ Tick
    \/ Arrive
    \/ Cycle

Spec == Init /\ [][Next]_vars

\* The pipeline under an operator who starts and stops the scheduler only when
\* that has an effect, leaves the configuration alone, and a timer that fires
\* when no run is in progress: every kind of message, every start/stop
\* interleaving with the cycle.
StartEffective == ~is_running /\ StartProcessing
StopEffective == is_running /\ StopProcessing
TickSubmitted == instances < max_instances /\ Tick

NextMail ==
    \/ StartEffective
    \/ StopEffective
    \/ TickSubmitted
    \/ Arrive
    \/ Cycle

SpecMail == Init /\ [][NextMail]_vars

\* The scheduler under every control call and configuration edit, with a
\* mailbox that receives plain orders only.
PlainOrders == [sender : {FromAllowed}, po : {1}, fetch_ok : {TRUE}]
ArrivePlain == ArriveFrom(PlainOrders)

NextSched ==
    \/ StartProcessing
    \/ StopProcessing
    \/ UpdateEmailConfig
    \/ Tick
    \/ ArrivePlain
    \/ Cycle

SpecSched == Init /\ [][NextSched]_vars

\* the scheduler with update_interval called directly as well
NextInterval ==
    \/ NextSched
    \/ UpdateInterval

SpecInterval == Init /\ [][NextInterval]_vars

\* The ConnectionManager with one broadcast at a time, while websockets
\* connect and their peers go away at any moment.
BroadcastAlone(b) == (\A o \in Broadcasters : bc[o].pc = "idle") /\ BroadcastCall(b)

NextBroadcast ==
    \/ Connect
    \/ \E w \in 1..MaxConns : Fail(w)
    \/ \E b \in Broadcasters : BroadcastAlone(b)
    \/ \E b \in Broadcasters : BroadcastSend(b)
    \/ \E b \in Broadcasters : BroadcastRemove(b)
    \/ \E b \in Broadcasters : DisconnectPing(b)

SpecBroadcast == Init /\ [][NextBroadcast]_vars

\* main.py 32-42: websocket_endpoint waits in receive_text; when the peer has
\* gone, receive_text raises WebSocketDisconnect and the handler runs
\* manager.disconnect(websocket).  disconnect is an async def and the call is
\* not awaited: it builds a coroutine object that is never run, so no line of
\* disconnect executes and the endpoint returns.
EndpointDisconnect(w) ==
    /\ w \in (Range(active_connections) \cap failing) \ closed
    /\ closed' = closed \cup {w}
    /\ UNCHANGED <<active_connections, failing, bc, delivered, sent, pipeVars, libVars>>

\* The ConnectionManager with its callers on one event loop: the pipeline
\* (email_processor.py 628, 659), the scheduler's status updates
\* (scheduler.py 62, 78) and the endpoints (orders.py 300-306) each await
\* broadcast, so one broadcast can start while another waits in a send.
\* Subscribers connect at any moment; peers go away before the first
\* broadcast, and their endpoints notice at any moment.
FailEarly(w) == sent = 0 /\ Fail(w)

InitSubscribers == Init /\ allowed_senders = <<>>

NextSubscribers ==
    \/ Connect
    \/ \E w \in 1..MaxConns : FailEarly(w)
    \/ \E w \in 1..MaxConns : EndpointDisconnect(w)
    \/ \E b \in Broadcasters : BroadcastCall(b)
    \/ \E b \in Broadcasters : BroadcastSend(b)
    \/ \E b \in Broadcasters : BroadcastRemove(b)
    \/ \E b \in Broadcasters : DisconnectPing(b)

SpecSubscribers == InitSubscribers /\ [][NextSubscribers]_vars

\* ------------------------------------------------- parse_order_details
\* A body is a sequence of labelled lines; re.search finds the first line
\* that matches.
LabelPO == "PO Number:"
LabelType == "Order Type:"
LabelQC == "Requires Quality Check:"
LabelAddress == "Delivery address:"
LabelDate == "Committed Shipping Date:"

Lines ==
    [label : {LabelPO}, value : {"22121"}]
    \cup [label : {LabelType}, value : {"DTF"}]
    \cup [label : {LabelQC}, value : {"Yes", "No", "Maybe"}]
    \cup [label : {LabelAddress}, value : {"Ann"}]
    \cup [label : {LabelDate}, value : {"Thursday, October 02, 2025", "soon"}]

Bodies == UNION {[1..n -> Lines] : n \in 0..MaxLines}

\* re.search(label ...): the first line of b with the label whose value is
\* one of values, or None
Search(b, label, values) ==
    LET hits == {x \in 1..Len(b) : b[x].label = label /\ b[x].value \in values}
    IN IF hits = {} THEN None
       ELSE CHOOSE x \in hits : \A y \in hits : x <= y

AnyValue == {l.value : l \in Lines}

\* email_processor.py 91-121: the formats of strptime accept the date, or
\* the current time is returned
parse_date(date_str, now) ==
    IF date_str = "Thursday, October 02, 2025"
    THEN [year |-> 2025, month |-> 10, day |-> 2, tick |-> 0]
    ELSE [year |-> 0, month |-> 0, day |-> 0, tick |-> now]

\* email_processor.py 474: the conditional expression; the inner search is
\* None when the label is there without Yes or No after it
requires_qc(b) ==
    IF Search(b, LabelQC, AnyValue) = None THEN "False"
    ELSE IF Search(b, LabelQC, {"Yes", "No"}) = None THEN "AttributeError"
    ELSE IF b[Search(b, LabelQC, {"Yes", "No"})].value = "Yes" THEN "True"
    ELSE "False"

FieldOr(b, label, default) ==
    IF Search(b, label, AnyValue) = None THEN default
    ELSE b[Search(b, label, AnyValue)].value

\* email_processor.py 450-509, called at time now: the record returned, or
\* the exception raised
parse_order_details(b, now) ==
    IF requires_qc(b) = "AttributeError"
    THEN [raised |-> "AttributeError"]
    ELSE [raised |-> "",
          po_number |-> FieldOr(b, LabelPO, "<None>"),
          order_type |-> FieldOr(b, LabelType, "Unknown"),
          requires_quality_check |-> requires_qc(b),
          customer_name |-> FieldOr(b, LabelAddress, ""),
          committed_shipping_date |->
              IF Search(b, LabelDate, AnyValue) = None
              THEN parse_date("", now)
              ELSE parse_date(b[Search(b, LabelDate, AnyValue)].value, now)]

\* parse_order_details is called on the body
ParseCall ==
    /\ Len(parsed) < MaxCalls
    /\ parsed' = Append(parsed, parse_order_details(body, clock))
    /\ UNCHANGED <<body, clock, downloadVars, printVars, docVars, deleteVars, pipeVars, wsVars>>

\* Time passes: utcnow() returns another value
ClockTick ==
    /\ clock < MaxClock
    /\ clock' = clock + 1
    /\ UNCHANGED <<body, parsed, downloadVars, printVars, docVars, deleteVars, pipeVars, wsVars>>

\* parse_order_details on every body, called at any times
InitBodies ==
    /\ InitService
    /\ body \in Bodies
    /\ clock = 0
    /\ parsed = <<>>
    /\ InitDownload
    /\ InitPrint
    /\ InitDoc
    /\ InitDelete

NextParse ==
    \/ ParseCall
    \/ ClockTick

SpecParse == InitBodies /\ [][NextParse]_vars

\* ------------------------------------------------ process_download_urls
\* A file name is a stem, as the parts that "_" separates, and an extension.
FileName(stem, ext) == [stem |-> stem, ext |-> ext]

\* email_processor.py 293-310: the names the links of an email resolve to
BaseNames == {FileName(<<"a">>, "png"), FileName(<<"a", "label">>, "pdf")}

\* str(counter)
Decimal == <<"1", "2", "3", "4", "5", "6", "7", "8", "9">>

\* email_processor.py 810-811: f"{name}_{counter}{ext}"
Suffixed(base, counter) == FileName(Append(base.stem, Decimal[counter]), base.ext)

\* os.path.exists
Exists(path) == \E f \in files : f.path = path

\* email_processor.py 807-812: the first free path among base, base_1, ...
RECURSIVE Probe(_, _, _)
Probe(base, file_path, counter) ==
    IF Exists(file_path)
    THEN Probe(base, Suffixed(base, counter), counter + 1)
    ELSE file_path

UniquePath(base) == Probe(base, base, 1)

\* email_processor.py 822-823: f"{stem of file_path}_label.pdf"
LabelPdf(file_path) == FileName(Append(file_path.stem, "label"), "pdf")

\* open(path, 'wb') / canvas.save(): the file at path is created or replaced
Write(fs, path, by, kind) ==
    {f \in fs : f.path # path} \cup {[path |-> path, by |-> by, kind |-> kind]}

ImageExtensions == {"png", "jpg", "jpeg", "gif", "bmp"}

\* email_processor.py 802-848 for one link: the path is chosen, the file is
\* downloaded (or the download fails, before or after the file was opened),
\* and an image is converted to a label PDF next to it (or the conversion
\* fails).
Download(base) ==
    LET idx == Len(downloads) + 1
        file_path == UniquePath(base)
        saved == Write(files, file_path, idx, "download")
    IN
    /\ Len(downloads) < MaxDownloads
    /\ \/ /\ files' = IF base.ext \in ImageExtensions
                      THEN Write(saved, LabelPdf(file_path), idx, "label")
                      ELSE saved
          /\ downloads' = Append(downloads, [base |-> base, path |-> file_path,
                                             stored |-> TRUE])
       \/ /\ base.ext \in ImageExtensions
          /\ files' = saved
          /\ downloads' = Append(downloads, [base |-> base, path |-> file_path,
                                             stored |-> TRUE])
       \/ /\ files' \in {files, Write(files, file_path, idx, "partial")}
          /\ downloads' = Append(downloads, [base |-> base, path |-> file_path,
                                             stored |-> FALSE])
    /\ UNCHANGED <<parseVars, printVars, docVars, deleteVars, pipeVars, wsVars>>

\* The links of one email, one after the other, into one order folder
NextDownload == \E base \in BaseNames : Download(base)

SpecDownload == Init /\ [][NextDownload]_vars

\* ------------------------------------------------- a mailbox that stays down
\* After the login every select/search of the cycle raises IMAP4.error
\* (email_processor.py 538-542), so each pass of the loop ends in the handler
\* at 674-682.  The event loop runs a task that is ready and a sleep ends
\* after POLL_INTERVAL seconds: the steps of the cycle are weakly fair.
NextOutage ==
    \/ StartEffective
    \/ TickSubmitted
    \/ Arrive
    \/ \E t \in Tasks : JobStart(t)
    \/ \E t \in Tasks : IterateError(t)

FairOutage ==
    /\ WF_vars(\E t \in Tasks : JobStart(t))
    /\ WF_vars(\E t \in Tasks : IterateError(t))

SpecOutage == Init /\ [][NextOutage]_vars /\ FairOutage

\* ------------------------------------------- printer_service.py: print_file
\* Attachment.file_type as stored; NoFileType is a NULL column
NoFileType == "<None>"
FileTypes == {"pdf", "PNG", "jpg", "jpeg", "html", NoFileType}

\* str.lower() on the stored types
lower(s) == CASE s = "PNG" -> "png" [] s = "PDF" -> "pdf" [] OTHER -> s

\* printer_service.py 24: the types print_file dispatches
PrintableTypes_with_html == {"pdf", "png", "jpg", "jpeg", "html"}
PrintableTypes == {"pdf", "png", "jpg", "jpeg"}

\* printer_service.py 46-49: "label" in file_path.lower()
is_label_file(file_path) == "label" \in Range(file_path.stem)

\* settings.ATTACHMENT_PRINTER / settings.BODY_PRINTER
PrinterFor(file_path) ==
    IF is_label_file(file_path) THEN "ATTACHMENT_PRINTER" ELSE "BODY_PRINTER"

\* what asyncio.create_subprocess_exec and the process can do
ProcessOutcomes == {"exit0", "exit1", "OSError"}

\* printer_service.py 51-71: the exit status decides, an exception gives False
print_with_sumatra(file_path, printer_name, outcome) ==
    [result |-> (outcome = "exit0"), raised |-> "", external |-> TRUE,
     printer |-> printer_name]

\* printer_service.py 19-44
print_file(attachment, is_docker, outcome) ==
    IF attachment.file_type = NoFileType
    THEN \* None.lower(): AttributeError, caught at 42-44
         [result |-> FALSE, raised |-> "", external |-> FALSE, printer |-> ""]
    ELSE IF lower(attachment.file_type) \in PrintableTypes
         THEN IF is_docker
              THEN [result |-> TRUE, raised |-> "", external |-> FALSE,
                    printer |-> PrinterFor(attachment.file_path)]
              ELSE print_with_sumatra(attachment.file_path,
                                      PrinterFor(attachment.file_path), outcome)
         ELSE [result |-> FALSE, raised |-> "", external |-> FALSE,
               printer |-> ""]

Attachments == [file_path : BaseNames, file_type : FileTypes]

\* one call of print_file in simulation mode (os.name == 'posix')
PrintSimulated ==
    /\ Len(printed) < MaxPrints
    /\ \E attachment \in Attachments :
           printed' = Append(printed,
               [attachment |-> attachment, is_docker |-> TRUE,
                out |-> print_file(attachment, TRUE, "exit0")])
    /\ UNCHANGED <<parseVars, downloadVars, docVars, deleteVars, pipeVars, wsVars>>

\* one call of print_file in native mode
PrintNative ==
    /\ Len(printed) < MaxPrints
    /\ \E attachment \in Attachments, outcome \in ProcessOutcomes :
           printed' = Append(printed,
               [attachment |-> attachment, is_docker |-> FALSE,
                out |-> print_file(attachment, FALSE, outcome)])
    /\ UNCHANGED <<parseVars, downloadVars, docVars, deleteVars, pipeVars, wsVars>>

NextPrint ==
    \/ PrintSimulated
    \/ PrintNative

SpecPrint == Init /\ [][NextPrint]_vars

\* ------------------------------ the document stages of one Order, 644-655
\* Attachment.pdf_path is NULL
NoPath == FileName(<<>>, "")

\* the file names of the MIME attachments
PartNames == {FileName(<<"x">>, "png"), FileName(<<"x">>, "jpg"),
              FileName(<<"x">>, "PDF")}

\* email_processor.py 901 and 909: f"{po_number}_email_body.html" and ".pdf"
BodyHtml == FileName(<<"po", "email", "body">>, "html")
BodyPdf == FileName(<<"po", "email", "body">>, "pdf")

SeqsUpTo(S, n) == UNION {[1..m -> S] : m \in 0..n}

\* email_processor.py 750 and 841: pdf_file_path if it ends with '.pdf'
PdfPath(pdf_file_path) ==
    IF pdf_file_path.ext = "pdf" THEN pdf_file_path ELSE NoPath

AttachmentRow(file_path, pdf_path, file_type, sheet_type) ==
    [file_name |-> file_path, file_path |-> file_path, pdf_path |-> pdf_path,
     file_type |-> file_type, sheet_type |-> sheet_type]

\* where the stages are: the loop at 697, the loop at 786, the body, the end
DocStage ==
    IF doc.stage # "open" THEN doc.stage
    ELSE IF doc.i <= Len(doc.parts) THEN "attachments"
    ELSE IF doc.j <= Len(doc.links) THEN "links"
    ELSE "body"

\* what the print command can do (exit status zero or not); in simulation
\* there is none
Outcomes == IF doc.is_docker THEN {"exit0"} ELSE {"exit0", "exit1"}

\* email_processor.py 761, 852, 941: print_file(attachment), result dropped
Dispatched(row, outcome) ==
    Append(doc.dispatched, [row |-> Len(doc.rows) + 1,
                            out |-> print_file(row, doc.is_docker, outcome)])

\* email_processor.py 697-765 for one MIME part.  The file is saved (705,
\* outside the try: an error there leaves process_attachments and reaches the
\* handler at 661-664), an image is converted, the row is written, the file
\* is sent to print_file.
ProcessPart ==
    LET filename == doc.parts[doc.i]
        by == Len(doc.rows) + 1
        saved == Write(files, filename, by, "attachment")
        file_extension == lower(filename.ext)
        image == file_extension \in ImageExtensions
    IN
    /\ DocStage = "attachments"
    /\ \/ /\ doc' = [doc EXCEPT !.stage = "failed", !.raised = "OSError",
                                !.logs = Append(@, LogRow("Order Processing", "failed"))]
          /\ UNCHANGED files
       \/ \E converted \in {b \in BOOLEAN : image \/ ~b}, outcome \in Outcomes :
              LET pdf_file_path == IF converted THEN LabelPdf(filename) ELSE filename
                  row == AttachmentRow(filename, PdfPath(pdf_file_path),
                                       file_extension, "")
              IN /\ files' = IF converted
                             THEN Write(saved, pdf_file_path, by, "label")
                             ELSE saved
                 /\ doc' = [doc EXCEPT !.i = @ + 1,
                                       !.rows = Append(@, row),
                                       !.dispatched = Dispatched(row, outcome)]
    /\ UNCHANGED <<downloads, parseVars, printVars, deleteVars, pipeVars, wsVars>>

\* Variant: a failed download raises out of process_download_urls
DownloadFailed_raises ==
    doc' = [doc EXCEPT !.stage = "failed", !.raised = "RequestException",
                       !.logs = Append(@, LogRow("Order Processing", "failed"))]

\* email_processor.py 853-855: download_file_from_url returned False
DownloadFailed ==
    doc' = [doc EXCEPT !.j = @ + 1,
                       !.logs = Append(@, LogRow("URL Download", "failed"))]

\* email_processor.py 786-858 for one link: no order type found (skipped),
\* download failed (logged), or downloaded, converted, recorded and printed
ProcessLink ==
    LET base == doc.links[doc.j]
        file_path == UniquePath(base)
        by == Len(doc.rows) + 1
        saved == Write(files, file_path, by, "download")
        file_extension == lower(base.ext)
        image == file_extension \in ImageExtensions
    IN
    /\ DocStage = "links"
    /\ \/ /\ doc' = [doc EXCEPT !.j = @ + 1]
          /\ UNCHANGED files
       \/ /\ DownloadFailed
          /\ files' \in {files, Write(files, file_path, by, "partial")}
       \/ \E converted \in {b \in BOOLEAN : image \/ ~b}, outcome \in Outcomes :
              LET pdf_file_path == IF converted THEN LabelPdf(file_path) ELSE file_path
                  row == AttachmentRow(file_path, PdfPath(pdf_file_path),
                                       file_extension, "Gang Sheet")
              IN /\ files' = IF converted
                             THEN Write(saved, pdf_file_path, by, "label")
                             ELSE saved
                 /\ doc' = [doc EXCEPT !.j = @ + 1,
                                       !.rows = Append(@, row),
                                       !.dispatched = Dispatched(row, outcome)]
    /\ UNCHANGED <<downloads, parseVars, printVars, deleteVars, pipeVars, wsVars>>

\* email_processor.py 920-924: both renderers failed, the function returns
BothRenderersFailed ==
    doc' = [doc EXCEPT !.stage = "finish", !.render = "both_failed"]

\* email_processor.py 864-945: the HTML file is written (an error is caught at
\* 943-945 and logged), wkhtmltopdf or else ReportLab renders the PDF, the
\* 'Email Body' row is written and the PDF is sent to print_file.
CreateBody ==
    LET by == Len(doc.rows) + 1
        html == Write(files, BodyHtml, by, "html")
        row == [AttachmentRow(BodyPdf, NoPath, "pdf", "Email Body")
                    EXCEPT !.pdf_path = NoPath]
    IN
    /\ DocStage = "body"
    /\ \/ /\ doc' = [doc EXCEPT !.stage = "finish", !.render = "raised",
                                !.logs = Append(@, LogRow("Email Body PDF Creation",
                                                          "failed"))]
          /\ UNCHANGED files
       \/ \E renderer \in {"primary", "fallback"}, outcome \in Outcomes :
              /\ files' = Write(html, BodyPdf, by, "body")
              /\ doc' = [doc EXCEPT !.stage = "finish", !.render = renderer,
                                    !.rows = Append(@, row),
                                    !.dispatched = Dispatched(row, outcome)]
       \/ /\ BothRenderersFailed
          /\ files' = html
    /\ UNCHANGED <<downloads, parseVars, printVars, deleteVars, pipeVars, wsVars>>

\* email_processor.py 653-655: order.status = "completed"
CompleteDoc ==
    /\ DocStage = "finish"
    /\ doc' = [doc EXCEPT !.stage = "completed", !.status = "completed"]
    /\ UNCHANGED <<files, downloads, parseVars, printVars, deleteVars, pipeVars, wsVars>>

\* an Order was committed for an email with these parts and links
InitDocs ==
    /\ InitService /\ InitParse /\ InitDownload /\ InitPrint /\ InitDelete
    /\ allowed_senders = <<>>
    /\ doc \in {NewDoc(parts, links, is_docker) :
                    parts \in SeqsUpTo(PartNames, MaxParts),
                    links \in SeqsUpTo(BaseNames, MaxLinks),
                    is_docker \in BOOLEAN}

NextDocs ==
    \/ ProcessPart
    \/ ProcessLink
    \/ CreateBody
    \/ CompleteDoc

\* the stages run in one coroutine that the event loop keeps running
SpecDocs == InitDocs /\ [][NextDocs]_vars /\ WF_vars(NextDocs)

\* ------------------------------ delete_order beside the pipeline's writes
\* One Order (id ORDER_ID), the pipeline that creates it and writes its
\* children, and requests to DELETE /orders/{ORDER_ID}.  The endpoint is a
\* plain def, so it runs on a worker thread with its own session while the
\* pipeline runs on the event loop: the two interleave at every statement the
\* database sees.  Each action is one database statement or one commit.
ORDER_ID == 1

Child(table, id) ==
    [table |-> table, order_id |-> id, doomed |-> FALSE]

\* The row of the Order is there (a pending DELETE of another session does
\* not hide it before its commit).
OrderExists ==
    deletion.order \in {"processing", "completed"}

\* ForeignKey("orders.id") on order_id: a child row may be written when its
\* order_id is NULL or names an existing row of orders.
ForeignKeyHolds_unenforced(id) ==
    TRUE

ForeignKeyHolds(id) ==
    id = None \/ OrderExists

\* 661-663: any exception of the try lands here; the log row has no order_id.
PipelineFailed ==
    [deletion EXCEPT !.p = "failed",
                     !.children = Append(@, Child("processing_logs", None))]

\* A commit of the pipeline that inserts one child of the Order, and the
\* position the pipeline goes to; the IntegrityError of a refused INSERT is
\* an Exception of the try.
InsertChild(table, next) ==
    IF ForeignKeyHolds(ORDER_ID)
    THEN [deletion EXCEPT !.children = Append(@, Child(table, ORDER_ID)),
                          !.p = next]
    ELSE PipelineFailed

\* 606-621: the Order is saved with status "processing".
SaveOrder ==
    /\ deletion.p = "idle"
    /\ deletion.order = "none"
    /\ deletion' = [deletion EXCEPT !.order = "processing", !.p = "jobs"]
    /\ UNCHANGED <<parseVars, downloadVars, printVars, docVars, pipeVars, wsVars>>

\* 630-642: the PrintJob rows of the Order, one commit.
SavePrintJobs ==
    /\ deletion.p = "jobs"
    /\ deletion' = InsertChild("print_jobs", "documents")
    /\ UNCHANGED <<parseVars, downloadVars, printVars, docVars, pipeVars, wsVars>>

\* 747-757, 838-848, 927-937: an Attachment row of the Order is committed;
\* 434-448 called with order.id: a ProcessingLog row of the Order.
WriteChild ==
    /\ deletion.p = "documents"
    /\ deletion.writes < MaxWrites
    /\ \E table \in {"attachments", "processing_logs"} :
           deletion' = [InsertChild(table, "documents") EXCEPT !.writes = @ + 1]
    /\ UNCHANGED <<parseVars, downloadVars, printVars, docVars, pipeVars, wsVars>>

\* 656-657: UPDATE orders SET status = 'completed' WHERE id = ORDER_ID; a
\* flush that matches no row raises StaleDataError.
SetStatus ==
    /\ deletion.p = "documents"
    /\ deletion' = IF OrderExists
                   THEN [deletion EXCEPT !.order = "completed", !.p = "done"]
                   ELSE PipelineFailed
    /\ UNCHANGED <<parseVars, downloadVars, printVars, docVars, pipeVars, wsVars>>

\* orders.py 72-76: the Order is looked up; 404 when there is none.
DeleteCall ==
    /\ deletion.d = "idle"
    /\ deletion.calls < MaxDeleteCalls
    /\ deletion' = [deletion EXCEPT !.calls = @ + 1,
                                    !.d = IF OrderExists THEN "attachments" ELSE "idle"]
    /\ UNCHANGED <<parseVars, downloadVars, printVars, docVars, pipeVars, wsVars>>

\* Query.delete() of one table inside the open transaction: the rows of the
\* Order that are committed by now.
BulkDelete(table) ==
    [x \in 1..Len(deletion.children) |->
        IF /\ deletion.children[x].table = table
           /\ deletion.children[x].order_id = ORDER_ID
        THEN [deletion.children[x] EXCEPT !.doomed = TRUE]
        ELSE deletion.children[x]]

\* orders.py 80, 81, 82
DeleteChildren ==
    /\ \/ /\ deletion.d = "attachments"
          /\ deletion' = [deletion EXCEPT !.children = BulkDelete("attachments"),
                                          !.d = "print_jobs"]
       \/ /\ deletion.d = "print_jobs"
          /\ deletion' = [deletion EXCEPT !.children = BulkDelete("print_jobs"),
                                          !.d = "processing_logs"]
       \/ /\ deletion.d = "processing_logs"
          /\ deletion' = [deletion EXCEPT !.children = BulkDelete("processing_logs"),
                                          !.d = "order"]
    /\ UNCHANGED <<parseVars, downloadVars, printVars, docVars, pipeVars, wsVars>>

\* orders.py 85-86: db.delete(order); db.commit().  The relationships of
\* Order (models/order.py 22-24) have no delete cascade, so the flush sets
\* order_id of every child still there to NULL and then deletes the row of
\* the Order; the DELETE is refused while a row still references it.  A
\* child the pipeline commits after the flush has loaded the collections is
\* not in loaded.  The DELETE and the commit are one step: a pipeline INSERT
\* in between waits for the lock on the row and is decided after the commit.
\* 88-91: a refused statement rolls the transaction back and answers 500.
DeleteCommit ==
    /\ deletion.d = "order"
    /\ \E loaded \in SUBSET {x \in 1..Len(deletion.children) :
                                /\ deletion.children[x].order_id = ORDER_ID
                                /\ ~deletion.children[x].doomed} :
         LET nullified == [x \in 1..Len(deletion.children) |->
                              IF x \in loaded
                              THEN [deletion.children[x] EXCEPT !.order_id = None]
                              ELSE deletion.children[x]]
             referenced == \E x \in 1..Len(nullified) :
                              /\ nullified[x].order_id = ORDER_ID
                              /\ ~nullified[x].doomed
         IN  deletion' =
               IF referenced
               THEN [deletion EXCEPT
                       !.children = [x \in 1..Len(@) |-> [@[x] EXCEPT !.doomed = FALSE]],
                       !.d = "idle"]
               ELSE [deletion EXCEPT
                       !.children = SelectSeq(nullified, LAMBDA c : ~c.doomed),
                       !.order = "deleted",
                       !.d = "idle"]
    /\ UNCHANGED <<parseVars, downloadVars, printVars, docVars, pipeVars, wsVars>>

InitDeletion ==
    /\ InitService /\ InitParse /\ InitDownload /\ InitPrint /\ InitDoc /\ InitDelete
    /\ allowed_senders = <<>>

NextDelete ==
    \/ SaveOrder
    \/ SavePrintJobs
    \/ WriteChild
    \/ SetStatus
    \/ DeleteCall
    \/ DeleteChildren
    \/ DeleteCommit

SpecDelete == InitDeletion /\ [][NextDelete]_vars

\* ================================================================ properties
Rows(po) == {i \in 1..Len(orders) : orders[i].po_number = po}

\* The message that a pass of the loop started by task t would take to the
\* sender check: the last message of the batch whose fetch succeeds.
Handled(t) == FetchLoop(EmailIds, cyc[t].msg)

HandlesMessage(t) ==
    /\ AtLoopTop(t)
    /\ proc_is_running[cyc[t].proc]
    /\ EmailIds # <<>>
    /\ Handled(t) # None

\* C1: at any time the orders table holds at most one row for a given
\* po_number, however often a message with that PO number is delivered and
\* whichever cycle handles it.
C1_OneOrderPerPO ==
    \A i, j \in 1..Len(orders) :
        orders[i].po_number = orders[j].po_number => i = j

\* A second message with the PO number of a stored order went through the
\* gate, and the table still holds one row for it.
C1_RepeatedDelivery ==
    \E t \in Tasks, i \in 1..Len(orders) :
        /\ cyc[t].msg \notin {None, orders[i].src}
        /\ cyc[t].msg \notin unseen
        /\ msgs[cyc[t].msg].po = orders[i].po_number
        /\ SenderCheck(cyc[t].allowed, msgs[cyc[t].msg].sender) = "allowed"
        /\ Cardinality(Rows(orders[i].po_number)) = 1

\* C2 (as claimed): once a cycle has handled what it fetched, every fetched
\* message from the allowed sender has an Order row with its PO number, so N
\* such messages with N distinct PO numbers give N rows.
C2_EveryMessageProcessed ==
    (/\ \A t \in Tasks : cyc[t].pc \in {"idle", "sleep"}
     /\ \A m \in 1..Len(msgs) :
            /\ msgs[m].fetch_ok /\ msgs[m].po # None
            /\ SenderCheck(ALLOWED_SENDER, msgs[m].sender) = "allowed"
     /\ \A m, n \in 1..Len(msgs) : msgs[m].po = msgs[n].po => m = n)
    => \A m \in 1..Len(msgs) : m \notin unseen => Rows(msgs[m].po) # {}

C4_StopWaitsForCycle ==
    [][/\ (is_running /\ ~is_running') => \A t \in Tasks : ~InFlight(t)'
       /\ \A t \in Tasks : cyc[t].pc = "print" => cyc'[t].pc # "idle"]_vars

\* C5 (as claimed): while the scheduler is stopped no pass of the polling loop
\* begins and no Order row is created.
C5_QuietWhileStopped ==
    [][~is_running => (orders' = orders /\ ~(\E t \in Tasks : Iterate(t)))]_vars

\* C6: start_processing on a running scheduler and stop_processing on a
\* stopped one change nothing: running state, processor, job, executor,
\* cycles, and no status event is broadcast.
C6_NoOpStartStop ==
    [][((is_running /\ StartProcessing) \/ (~is_running /\ StopProcessing))
        => UNCHANGED <<is_running, email_processor, proc_is_running, job,
                       instances, cyc, events, dbVars>>]_vars

\* start_processing was called on a running scheduler.
C6_StartedTwice ==
    /\ last_log = "already_running"
    /\ is_running
    /\ job # None

\* The pass of the loop takes to the gate a message from the allowed sender
\* whose PO number is already stored.
DuplicateCase(t) ==
    /\ HandlesMessage(t)
    /\ SenderCheck(cyc[t].allowed, msgs[Handled(t)].sender) = "allowed"
    /\ Rows(msgs[Handled(t)].po) # {}

Received(w, n) ==
    \E x \in 1..Len(delivered[w]) : delivered[w][x] = EventText(n)

BroadcastDone(b) ==
    bc[b].pc = "remove" /\ bc[b].j > Len(bc[b].disconnected)

\* C8: a broadcast delivers its message to every subscriber of the call that
\* stays healthy, wherever it stands relative to the failing ones, and when
\* broadcast returns the active list holds every such subscriber and none of
\* those whose send failed.
C8_BroadcastSurvivesFailures ==
    [][\A b \in Broadcasters : (BroadcastDone(b) /\ BroadcastRemove(b))
          => /\ \A w \in bc[b].at_start \ failing :
                    /\ w \in Range(active_connections')
                    /\ Received(w, bc[b].message)
             /\ \A c \in Range(bc[b].disconnected) :
                    c \notin Range(active_connections')]_vars

\* A broadcast is about to return: a failing subscriber stood between two
\* healthy ones, both got the message, the failing one is gone.
C8_MixedSubscribers ==
    \E b \in Broadcasters, h1, f, h2 \in 1..MaxConns :
        /\ BroadcastDone(b)
        /\ h1 < f /\ f < h2
        /\ {h1, f, h2} \subseteq bc[b].at_start
        /\ f \in Range(bc[b].disconnected)
        /\ {h1, h2} \cap failing = {}
        /\ Received(h1, bc[b].message) /\ Received(h2, bc[b].message)
        /\ {h1, h2} \subseteq Range(active_connections)
        /\ f \notin Range(active_connections)

\* The pass of the loop takes to the sender check a message that does not pass
\* it: the sender header does not contain the allowed address, no allowed
\* address is configured, or the message has no From header.
NotAllowedCase(t) ==
    /\ HandlesMessage(t)
    /\ \/ cyc[t].allowed = NoneStr
       \/ msgs[Handled(t)].sender = NoneStr
       \/ ~IsSubstring(cyc[t].allowed, msgs[Handled(t)].sender)

\* C9: a message that does not pass the sender check is skipped: no Order,
\* PrintJob or Attachment row, no order folder and no event come of it, and
\* the cycle goes on to its next poll.
C9_NotAllowedSkipped ==
    [][\A t \in Tasks : (NotAllowedCase(t) /\ IterateBatch(t))
          => /\ UNCHANGED <<orders, print_jobs, attachments, folders, events>>
             /\ cyc'[t].pc = "sleep"
             /\ cyc'[t].proc = cyc[t].proc]_vars

\* A message from another sender was skipped and left no order behind.
C9_OtherSenderSkipped ==
    \E t \in Tasks :
        /\ cyc[t].pc = "sleep"
        /\ cyc[t].msg # None
        /\ cyc[t].msg \notin unseen
        /\ SenderCheck(cyc[t].allowed, msgs[cyc[t].msg].sender) = "not_allowed"
        /\ \A i \in 1..Len(orders) : orders[i].src # cyc[t].msg

\* C10 (as claimed): a message whose fetch fails produces no Order, and every
\* Order is made from the content of one message and stored under the id of
\* that same message.
C10_OwnContentOwnId ==
    \A i \in 1..Len(orders) :
        /\ msgs[orders[i].email_id].fetch_ok
        /\ orders[i].email_id = orders[i].src

\* C11 (as claimed): parse_order_details returns a record for every body and
\* never raises; a quality-check label followed by something other than Yes
\* or No gives requires_quality_check = false.
C11_ParseNeverRaises ==
    \A x \in 1..Len(parsed) :
        /\ parsed[x].raised = ""
        /\ (Search(body, LabelQC, {"Yes", "No"}) = None)
               => parsed[x].requires_quality_check = "False"

\* C12 (as claimed): two calls of parse_order_details on the same body, at
\* any two times, return identical records.
C12_ParseDeterministic ==
    \A x, y \in 1..Len(parsed) : parsed[x] = parsed[y]

\* C13 (as claimed): of two downloads into the folder that resolve to the
\* same base name and are stored, the two are stored under distinct paths, the
\* later under the base name with a numeric suffix before the extension, and
\* the file the earlier one stored is still there as it was stored.
C13_CollisionsKeepBoth ==
    \A i, j \in 1..Len(downloads) :
        (/\ i < j
         /\ downloads[i].stored /\ downloads[j].stored
         /\ downloads[i].base = downloads[j].base)
        => /\ downloads[i].path # downloads[j].path
           /\ \E n \in 1..Len(downloads) :
                  downloads[j].path = Suffixed(downloads[j].base, n)
           /\ [path |-> downloads[i].path, by |-> i, kind |-> "download"] \in files


\* C14: in simulation mode print_file never raises and never starts an
\* external process; it returns success for an attachment of type pdf, png,
\* jpg or jpeg and false for any other type.
C14_SimulationTotal ==
    \A x \in 1..Len(printed) :
        printed[x].is_docker =>
            /\ printed[x].out.raised = ""
            /\ ~printed[x].out.external
            /\ printed[x].out.result =
                   (printed[x].attachment.file_type \in {"pdf", "PNG", "jpg", "jpeg"})

C14_SimulatedBoth ==
    \E x, y \in 1..Len(printed) :
        /\ printed[x].is_docker /\ printed[y].is_docker
        /\ printed[x].attachment.file_type = "pdf" /\ printed[x].out.result
        /\ printed[y].attachment.file_type = "html" /\ ~printed[y].out.result

\* C15: a polling cycle is one pass: once it has handled what the mailbox
\* held and slept, monitor_emails returns control to the scheduler without
\* any stop request, so that the next tick starts the next cycle.
C15_CycleReturns ==
    [][\A t \in Tasks :
          (cyc[t].pc = "sleep" /\ Iterate(t)) => cyc'[t].pc = "idle"]_vars

\* C16: while the mailbox keeps answering with protocol errors, a cycle makes
\* a bounded number of reconnect attempts and then ends, giving the failure
\* back to the scheduler: a cycle that is polling eventually is over.
C16_OutageEndsCycle ==
    \A t \in Tasks : (cyc[t].pc \in {"poll", "sleep"}) ~> (cyc[t].pc = "idle")

\* C17: at most one mail-protocol session is open at any time, and none is
\* open while processing is stopped.
C17_OneSessionNoneAfterStop ==
    /\ Cardinality({p \in DOMAIN mail : mail[p]}) <= 1
    /\ ~is_running => \A p \in DOMAIN mail : ~mail[p]

\* C18: the configuration is read again for every poll: a poll that follows
\* the one in progress when the EmailConfig row was edited works with the
\* values of the row as it is now, without a stop and start.
C18_LaterPollsUseNewConfig ==
    [][\A t \in Tasks :
          (cyc[t].pc = "sleep" /\ Iterate(t)) => cyc[t].allowed = ALLOWED_SENDER]_vars

\* C19: update_interval(n) while running leaves exactly one 'email_monitor'
\* job, with interval n, and does not touch a polling cycle in flight;
\* update_interval while not running changes nothing.  The same holds when
\* the call comes from an edit of the configuration.
C19_IntervalReplaced ==
    [][/\ \A n \in Intervals :
              UpdateIntervalCall(n) =>
                  /\ is_running => job' = n
                  /\ ~is_running => UNCHANGED vars
                  /\ UNCHANGED <<cyc, instances>>
       /\ (UpdateEmailConfig /\ is_running /\ sleep_time' # sleep_time) =>
              /\ job' = sleep_time'
              /\ UNCHANGED <<cyc, instances>>]_vars

C19_ReplacedInFlight ==
    /\ is_running
    /\ last_log = "interval_updated"
    /\ job = 7
    /\ \E t \in Tasks : cyc[t].pc = "sleep"

DocRank ==
    doc.i + doc.j + (IF doc.stage = "open" THEN 0
                     ELSE IF doc.stage = "finish" THEN 1 ELSE 2)

\* C21: conversion, download and print dispatch failures on single documents
\* never block the Order: only an error in saving a part reaches the failure
\* handler; until the Order is completed a next step is always possible and
\* every step advances; at the end every document has been handled and the
\* status is completed.
C21_DocumentFailuresDoNotBlock ==
    /\ [](doc.stage = "failed" => doc.raised = "OSError")
    /\ [](doc.stage \in {"open", "finish"} => ENABLED NextDocs)
    /\ [](doc.stage = "completed" =>
              /\ doc.i = Len(doc.parts) + 1
              /\ doc.j = Len(doc.links) + 1
              /\ doc.status = "completed")
    /\ [][DocRank' > DocRank]_vars

C21_CompletedDespiteFailures ==
    /\ doc.status = "completed"
    /\ \E x \in 1..Len(doc.dispatched) : ~doc.dispatched[x].out.result
    /\ \E x \in 1..Len(doc.logs) : doc.logs[x].action = "URL Download"
    /\ \E x, y \in 1..Len(doc.rows) :
           /\ x < y
           /\ doc.rows[x].file_type \in ImageExtensions
           /\ doc.rows[x].pdf_path = NoPath

\* the 'Email Body' rows and the failures logged for the email-body stage
BodyRows == {x \in 1..Len(doc.rows) : doc.rows[x].sheet_type = "Email Body"}
BodyFailuresLogged ==
    {x \in 1..Len(doc.logs) : /\ doc.logs[x].action = "Email Body PDF Creation"
                              /\ doc.logs[x].status = "failed"}

\* C22: when one of the two renderers produced the PDF there is exactly one
\* 'Email Body' Attachment and no failure is logged for the stage; when both
\* failed there is no 'Email Body' Attachment and a ProcessingLog row with
\* status failed has been appended for the stage.
C22_BodyRenderingOutcomes ==
    /\ doc.render \in {"primary", "fallback"} =>
           Cardinality(BodyRows) = 1 /\ BodyFailuresLogged = {}
    /\ doc.render = "both_failed" =>
           BodyRows = {} /\ BodyFailuresLogged # {}

\* C23: pdf_path of an Attachment is set exactly when a print-ready PDF
\* exists for it: the file itself when it is a PDF (whatever the case of its
\* extension), the label PDF produced from an image, the rendered PDF of the
\* 'Email Body' record; null when the conversion failed or the type is
\* neither image nor PDF.
C23_PdfPathNamesThePdf ==
    \A x \in 1..Len(doc.rows) :
        LET r == doc.rows[x] IN
        /\ r.file_type = "pdf" => r.pdf_path = r.file_path
        /\ r.file_type \in ImageExtensions =>
               r.pdf_path \in {NoPath, LabelPdf(r.file_path)}
        /\ r.file_type \notin ImageExtensions \cup {"pdf"} => r.pdf_path = NoPath
        /\ r.pdf_path # NoPath => \E f \in files : f.path = r.pdf_path

\* C24: every Order row has a PO number: a message whose body yields none
\* never results in an Order.
C24_EveryOrderHasPO ==
    \A x \in 1..Len(orders) : orders[x].po_number # None

ReferencingRows ==
    {x \in 1..Len(deletion.children) : deletion.children[x].order_id = ORDER_ID}

\* C25: under every interleaving of the pipeline's writes for an Order
\* (create, PrintJobs, Attachments, ProcessingLogs, status) with delete_order
\* for that Order, in every state after delete_order has committed no
\* PrintJob, Attachment or ProcessingLog row references the deleted Order.
C25_NoChildOfDeletedOrder ==
    deletion.order = "deleted" => ReferencingRows = {}

\* The Order is deleted while the pipeline is between its writes: a child
\* written during the request was detached, a write after the commit was
\* refused.
C25_DeletedWhileWriting ==
    /\ deletion.order = "deleted"
    /\ deletion.p = "failed"
    /\ deletion.writes > 0
    /\ \E x \in 1..Len(deletion.children) :
           /\ deletion.children[x].table = "attachments"
           /\ deletion.children[x].order_id = None

\* C26: within one Order distinct Attachment rows never share a stored file:
\* any two rows have different file_path and, where both have one, different
\* pdf_path, so no stored document is overwritten by a later one.
C26_NoSharedStoredFile ==
    \A x, y \in 1..Len(doc.rows) :
        x # y =>
            /\ doc.rows[x].file_path # doc.rows[y].file_path
            /\ \/ doc.rows[x].pdf_path = NoPath
               \/ doc.rows[y].pdf_path = NoPath
               \/ doc.rows[x].pdf_path # doc.rows[y].pdf_path

\* C27: once websocket_endpoint has observed WebSocketDisconnect for a
\* subscriber, the subscriber is no longer in active_connections: the active
\* list never retains a connection known to be closed, so no later broadcast
\* iterates over it.
C27_ClosedConnectionRemoved ==
    closed \cap Range(active_connections) = {}

Copies(w, n) ==
    Cardinality({x \in 1..Len(delivered[w]) : delivered[w][x] = EventText(n)})

\* C28: when the send loop of a broadcast has finished, every subscriber that
\* was in active_connections from the call until now and whose sends succeed
\* has received the message exactly once, whatever connects, disconnects or
\* other broadcasts interleaved at the awaits.
C28_EverySubscriberOnce ==
    \A b \in Broadcasters :
        bc[b].pc \in {"remove", "ping"} =>
            \A w \in (bc[b].at_start \cap Range(active_connections)) \ failing :
                Copies(w, bc[b].message) = 1

C30_DispatchesPrintReadyPdf ==
    \A d \in 1..Len(doc.dispatched) :
        LET attachment == doc.rows[doc.dispatched[d].row] IN
        attachment.pdf_path # NoPath =>
            doc.dispatched[d].out.printer = PrinterFor(attachment.pdf_path)

====
